---- MODULE Spec2Model ----
(***************************************************************************)
(* FOD detection backend: the event-ingestion paths of main.rs (infer /    *)
(* proxy_detect -> maybe_save, ingest_event), the read endpoints           *)
(* (recent_events, query_events) and the queries of db.rs they issue.      *)
(*                                                                         *)
(* Every request is one process slot.  A handler advances one database     *)
(* call (one .await on the pool) per step, so that the calls of concurrent *)
(* requests interleave exactly where the code awaits.  Each database call  *)
(* may fail (a storage fault), which the code turns into a 500 with `?`.   *)
(*                                                                         *)
(* Option<T> is modelled as a sequence of length at most one.  Floats are  *)
(* modelled by their decimal text.  Time is in whole seconds.              *)
(***************************************************************************)
EXTENDS Integers, Sequences, FiniteSets, TLC

VARIABLES now, fod_classes, events, req, returned

vars == <<now, fod_classes, events, req, returned>>

-----------------------------------------------------------------------------
(* Bounds of the model *)

\* the store holds at most this many event rows: an insert into a full
\* store can only fail
MaxEvents == 2
\* the clock stops advancing here
MaxTime == 15

(* Program constants *)

\* INTERVAL '10 seconds' of check_duplicate_track
Window == 10
\* .unwrap_or(100) of recent_events / query_events
DefaultLimit == 100
\* n <= 500 of recent_events / query_events
MaxLimit == 500

\* request slots: two requests may be in flight at once
Procs == {1, 2}
\* seconds the clock may jump in one step
TickSteps == {5}

-----------------------------------------------------------------------------
(* Option<T> *)

None == <<>>
Some(x) == <<x>>
IsSome(o) == Len(o) = 1
Get(o) == o[1]
UnwrapOr(o, d) == IF IsSome(o) THEN o[1] ELSE d
\* a.or_else(|| b)
OrElse(a, b) == IF IsSome(a) THEN a ELSE b

-----------------------------------------------------------------------------
(* Conversions *)

\* `conf as f32`: the f64 of the detection narrowed to single precision.
\* 0.5 and 0.25 are exact in both widths; 0.91 is not, and the nearest f32
\* is a different number.
AsF32(c) ==
  CASE c = "0.91" -> "0.9100000262260437"
    [] OTHER -> c

\* a timestamp text, as its fields: date, separator, h, m, s, offset.
\* OffsetDateTime::parse(.., &Rfc3339): the date-time needs the 'T' and an
\* offset ("Z" or +hh:mm); the value is the instant, in seconds since
\* 1970-01-01T00:00:00Z (the model's texts are all on that day).
OffsetSeconds(off) ==
  CASE off = "Z" -> 0
    [] off = "+00:01" -> 60
    [] OTHER -> 0

ParseRfc3339(t) ==
  IF /\ t.date = "1970-01-01"
     /\ t.sep = "T"
     /\ t.off \in {"Z", "+00:01"}
     /\ t.h \in 0..23 /\ t.m \in 0..59 /\ t.s \in 0..59
  THEN Some(t.h * 3600 + t.m * 60 + t.s - OffsetSeconds(t.off))
  ELSE None

Digits == <<"0", "1", "2", "3", "4", "5", "6", "7", "8", "9">>
IsDigit(ch) == \E i \in 1..10 : Digits[i] = ch
DigitVal(ch) == (CHOOSE i \in 1..10 : Digits[i] = ch) - 1

RECURSIVE DigitsValue(_, _)
DigitsValue(s, acc) ==
  IF s = <<>> THEN acc ELSE DigitsValue(Tail(s), acc * 10 + DigitVal(Head(s)))

\* s.parse::<i64>().ok() on a text given as its characters: an optional sign,
\* then one digit or more, nothing else.  (The model's texts are short:
\* none overflows.)
ParseI64(s) ==
  LET signed == s # <<>> /\ Head(s) \in {"+", "-"}
      body == IF signed THEN Tail(s) ELSE s
  IN IF body # <<>> /\ \A i \in 1..Len(body) : IsDigit(body[i])
     THEN Some(IF signed /\ Head(s) = "-" THEN 0 - DigitsValue(body, 0)
               ELSE DigitsValue(body, 0))
     ELSE None

\* the filter with n >= 0 in place of n > 0
LimitOfFromZero(q) ==
  LET parsed == IF IsSome(q.limit) THEN ParseI64(Get(q.limit)) ELSE None
      kept == IF IsSome(parsed) /\ Get(parsed) >= 0 /\ Get(parsed) <= MaxLimit
              THEN parsed ELSE None
  IN UnwrapOr(kept, DefaultLimit)

\* q.get("limit").and_then(parse).filter(|&n| n > 0 && n <= 500).unwrap_or(100)
LimitOf(q) ==
  LET parsed == IF IsSome(q.limit) THEN ParseI64(Get(q.limit)) ELSE None
      kept == IF IsSome(parsed) /\ Get(parsed) > 0 /\ Get(parsed) <= MaxLimit
              THEN parsed ELSE None
  IN UnwrapOr(kept, DefaultLimit)

-----------------------------------------------------------------------------
(* Request inputs *)

\* one element of the AI service's "detections" array; an absent key (or a
\* key of the wrong JSON type, which as_str / as_f64 turn into None) is None
Det(cls, conf, tid, norm, pix) ==
  [cls |-> cls, conf |-> conf, track_id |-> tid,
   bbox_xywh_norm |-> norm, bbox_xywh |-> pix]

NormBox == "[0.1,0.1,0.2,0.2]"
PixelBox == "[64,48,128,96]"

DetBolt == Det(Some("bolt"), Some("0.91"), None, Some(NormBox), Some(PixelBox))
DetNut == Det(Some("nut"), Some("0.5"), None, None, Some(PixelBox))
DetPlain == Det(Some("nut"), Some("0.25"), None, None, None)
DetTrack == Det(Some("bolt"), Some("0.5"), Some("t1"), None, None)
DetEmpty == Det(None, None, Some("t1"), Some(NormBox), None)
DetNoConf == Det(Some("bolt"), None, None, None, Some(PixelBox))

\* the JSON body of the AI service
Result(dets, model, w, h) ==
  [detections |-> dets, model |-> model, img_w |-> w, img_h |-> h]

ResultOf(batch) == Result(Some(batch), Some("yolo"), Some(640), Some(480))
\* a body without a "detections" array and without the top-level fields
ResultBare == Result(None, None, None, None)

SaveParams(save, lat, lon, source, source_ref, yaw) ==
  [save |-> save, latitude |-> lat, longitude |-> lon, source |-> source,
   source_ref |-> source_ref, yaw |-> yaw]

ParamsAbsent == SaveParams(None, None, None, None, None, None)
ParamsNoSave ==
  SaveParams(Some(FALSE), Some("1.0"), Some("2.0"), Some("drone1"), Some("cam1"), None)
ParamsDefault == SaveParams(Some(TRUE), None, None, None, None, None)
ParamsFull ==
  SaveParams(Some(TRUE), Some("1.0"), Some("2.0"), Some("drone1"), Some("cam1"),
             Some("90.0"))

\* the metadata payload: the known keys, each present or not
Meta(model, w, h, yaw, tid) ==
  [model |-> model, img_w |-> w, img_h |-> h, yaw |-> yaw, track_id |-> tid]

TsText(date, sep, h, m, s, off) ==
  [date |-> date, sep |-> sep, h |-> h, m |-> m, s |-> s, off |-> off]

\* 1970-01-01T00:00:00Z
TsZero == TsText("1970-01-01", "T", 0, 0, 0, "Z")
\* 1970-01-01T00:01:12+00:01, the instant 12
TsTwelve == TsText("1970-01-01", "T", 0, 1, 12, "+00:01")
\* 1970-01-01T00:00:12, no offset
TsNoOffset == TsText("1970-01-01", "T", 0, 0, 12, "")
\* not a date at all
TsGarbage == TsText("yesterday", "", 0, 0, 0, "")

IngestEventRequest(ts, cls, n, conf, lat, lon, source, source_ref, bbox, meta) ==
  [ts |-> ts, object_class |-> cls, object_count |-> n, confidence |-> conf,
   latitude |-> lat, longitude |-> lon, source |-> source,
   source_ref |-> source_ref, bbox |-> bbox, meta |-> meta]

TrackMeta == Some(Meta(None, None, None, None, Some("t1")))

\* a query string of the read endpoints
Query(limit, class) == [limit |-> limit, class |-> class]

-----------------------------------------------------------------------------
(* The store: tables fod_classes and events, and the queries of db.rs *)

\* the id column of the next fod_classes row: classes are never deleted
NewClassId(classes) == Cardinality(classes) + 1

\* a plain INSERT .. RETURNING id, without the conflict clause and without
\* the unique index it needs
get_or_create_class_always_insert(classes, name) ==
  [classes |-> classes \cup
                 {[id |-> NewClassId(classes), name |-> name,
                   description |-> "Auto-created class for: " \o name]},
   id |-> NewClassId(classes)]

\* INSERT INTO fod_classes .. ON CONFLICT (name) DO UPDATE .. RETURNING id:
\* one statement, so the store runs it atomically.  The table afterwards
\* and the id returned.
get_or_create_class(classes, name) ==
  IF \E c \in classes : c.name = name
  THEN [classes |-> classes,
        id |-> (CHOOSE c \in classes : c.name = name).id]
  ELSE [classes |-> classes \cup
                     {[id |-> NewClassId(classes), name |-> name,
                       description |-> "Auto-created class for: " \o name]},
        id |-> NewClassId(classes)]

\* meta->>'track_id'
TrackOf(meta) == IF IsSome(meta) THEN Get(meta).track_id ELSE None

\* the duplicate lookup without its source_ref condition
check_duplicate_track_any_source(evts, t, source_ref, track_id) ==
  {i \in 1..Len(evts) :
     /\ evts[i].ts > t - Window
     /\ TrackOf(evts[i].meta) = Some(track_id)}

\* the duplicate lookup with a window of 1 second
check_duplicate_track_short_window(evts, t, source_ref, track_id) ==
  {i \in 1..Len(evts) :
     /\ evts[i].ts > t - 1
     /\ evts[i].source_ref = source_ref
     /\ TrackOf(evts[i].meta) = Some(track_id)}

\* SELECT id FROM events WHERE ts > NOW() - INTERVAL '10 seconds'
\*   AND source_ref = $1 AND meta->>'track_id' = $2 LIMIT 1, at time t:
\* the ids the query may return (it returns one of them, or none)
check_duplicate_track(evts, t, source_ref, track_id) ==
  {i \in 1..Len(evts) :
     /\ evts[i].ts > t - Window
     /\ evts[i].source_ref = source_ref
     /\ TrackOf(evts[i].meta) = Some(track_id)}

\* a row of events.  id stands for the generated uuid: the row's position.
\* at (the time of the insert) and via (the ingestion path) are history
\* fields, not columns.
EventRow(id, ts, class_id, object_count, confidence, latitude, longitude, source, source_ref, bbox, meta, at, via) ==
  [id |-> id, ts |-> ts, class_id |-> class_id, object_count |-> object_count,
   confidence |-> confidence, latitude |-> latitude, longitude |-> longitude,
   source |-> source, source_ref |-> source_ref, bbox |-> bbox, meta |-> meta,
   at |-> at, via |-> via]

\* INSERT INTO events (ts, ..) VALUES ($1, ..) RETURNING id, at time t
insert_event(evts, t, ts, class_id, object_count, confidence, latitude, longitude, source, source_ref, bbox, meta) ==
  Append(evts, EventRow(Len(evts) + 1, ts, class_id, object_count, confidence,
                        latitude, longitude, source, source_ref, bbox, meta,
                        t, "ingest_event"))

\* an insert that looks for a duplicate again, in the same statement
insert_event_now_unless_duplicate(evts, t, class_id, confidence, latitude, longitude, source, source_ref, bbox, meta) ==
  IF /\ IsSome(meta.track_id)
     /\ check_duplicate_track(evts, t, source_ref, Get(meta.track_id)) # {}
  THEN evts
  ELSE Append(evts, EventRow(Len(evts) + 1, t, class_id, 1, confidence,
                             latitude, longitude, source, source_ref, bbox,
                             Some(meta), t, "maybe_save"))

\* INSERT INTO events (ts, .., object_count, ..) VALUES (NOW(), .., 1, ..),
\* at time t
insert_event_now(evts, t, class_id, confidence, latitude, longitude, source, source_ref, bbox, meta) ==
  Append(evts, EventRow(Len(evts) + 1, t, class_id, 1, confidence, latitude,
                        longitude, source, source_ref, bbox, Some(meta),
                        t, "maybe_save"))

\* JOIN fod_classes fc ON e.class_id = fc.id: the class name of a row
ClassNameOf(classes, e) == {c.name : c \in {d \in classes : d.id = e.class_id}}

\* the rows of SELECT .. FROM events e JOIN fod_classes fc .. [WHERE fc.name = $1]
Joined(evts, classes, class_name) ==
  {i \in 1..Len(evts) :
     /\ ClassNameOf(classes, evts[i]) # {}
     /\ IsSome(class_name) => Get(class_name) \in ClassNameOf(classes, evts[i])}

\* ORDER BY e.ts DESC over the rows `ids`: every order the store may return
\* (rows of equal ts come in any order)
Orderings(evts, ids) ==
  {o \in [1..Cardinality(ids) -> ids] :
     /\ \A i, j \in 1..Cardinality(ids) : i # j => o[i] # o[j]
     /\ \A i, j \in 1..Cardinality(ids) : i < j => evts[o[i]].ts >= evts[o[j]].ts}

\* LIMIT $n
Limit(rows, n) == IF Len(rows) <= n THEN rows ELSE SubSeq(rows, 1, n)

\* get_recent(db, limit): the lists the query may return
get_recent(evts, classes, limit) ==
  {Limit(o, limit) : o \in Orderings(evts, Joined(evts, classes, None))}

\* query_events(db, class_name, limit)
query_events(evts, classes, class_name, limit) ==
  IF IsSome(class_name)
  THEN {Limit(o, limit) : o \in Orderings(evts, Joined(evts, classes, class_name))}
  ELSE get_recent(evts, classes, limit)

-----------------------------------------------------------------------------
(* Requests *)

\* A request slot.  handler, pc, inp, k and class_id are the handler's
\* position and locals (k is its integer local: the index of the detection
\* in maybe_save's loop, the limit in the read handlers); status, body and
\* rows are its response.  base, baseCls and log are history: the number of
\* event rows and of class rows when the request came in, and the calls it
\* has made, in order, each with the value of k it was made with.
Idle ==
  [handler |-> "idle", pc |-> "idle", inp |-> <<>>, k |-> 0, class_id |-> 0,
   status |-> 0, body |-> "", rows |-> <<>>, base |-> 0, baseCls |-> 0,
   log |-> <<>>]

Begin(handler, pc, inp) ==
  [Idle EXCEPT !.handler = handler, !.pc = pc, !.inp = inp,
               !.base = Len(events), !.baseCls = Cardinality(fod_classes)]

\* the handler returns: its locals are dropped
Return(r, status, body, rows) ==
  [r EXCEPT !.pc = "done", !.k = 0, !.class_id = 0,
            !.status = status, !.body = body, !.rows = rows]

\* an error that is dropped: the handler goes on with the next detection
InternalIgnored(r) == [r EXCEPT !.pc = "for", !.k = r.k + 1, !.class_id = 0]

\* db::internal: any storage error becomes a 500
Internal(r) == Return(r, 500, "internal error", <<>>)

Logged(r, op, res) == [r EXCEPT !.log = Append(@, [k |-> r.k, op |-> op, r |-> res])]

Detections(result) == UnwrapOr(result.detections, <<>>)

\* if let (Some(cls), Some(conf)) = (..)
IsComplete(det) == IsSome(det.cls) /\ IsSome(det.conf)

\* params.save.unwrap_or(true)
SavingUnlessRefused(params) == UnwrapOr(params.save, TRUE)

\* params.save.unwrap_or(false)
Saving(params) == UnwrapOr(params.save, FALSE)

Latitude(params) == UnwrapOr(params.latitude, "0.0")
Longitude(params) == UnwrapOr(params.longitude, "0.0")
Source(params) == UnwrapOr(params.source, "monitoring")
SourceRef(params) == UnwrapOr(params.source_ref, "live_feed")

\* the pixel box preferred to the normalized one
BboxOfPixelFirst(det) == OrElse(det.bbox_xywh, det.bbox_xywh_norm)

\* det.get("bbox_xywh_norm").cloned().or_else(|| det.get("bbox_xywh").cloned())
BboxOf(det) == OrElse(det.bbox_xywh_norm, det.bbox_xywh)

\* the metadata map maybe_save assembles for one detection
MetaOf(result, params, det) ==
  Meta(result.model, result.img_w, result.img_h, params.yaw, det.track_id)

-----------------------------------------------------------------------------
(* infer / proxy_detect -> maybe_save *)

\* infer (and proxy_detect, which is the same code): extract_file, then
\* send_to_ai, then maybe_save.  upload: the multipart body has a "file"
\* field.  ai: the AI service's status, 0 for a transport failure.
infer(p, params, result, upload, ai) ==
  /\ req[p].pc = "idle"
  /\ LET r == Begin("infer", "maybe_save", [params |-> params, result |-> result])
     IN req' = [req EXCEPT ![p] =
          IF ~upload THEN Return(r, 400, "No file field", <<>>)
          ELSE IF ai = 0 THEN Internal(Logged(r, "send_to_ai", "fault"))
          ELSE IF ai # 200
               THEN Return(Logged(r, "send_to_ai", "error"), ai, "ai error", <<>>)
          ELSE Logged(r, "send_to_ai", "ok")]
  /\ UNCHANGED <<now, fod_classes, events, returned>>

\* maybe_save, up to the loop: the save flag
maybe_save(p) ==
  /\ req[p].pc = "maybe_save"
  /\ req' = [req EXCEPT ![p] =
       IF ~Saving(req[p].inp.params)
       THEN Return(req[p], 200, "result", <<>>)
       ELSE [req[p] EXCEPT !.pc = "for", !.k = 1]]
  /\ UNCHANGED <<now, fod_classes, events, returned>>

\* the loop with an incomplete detection ending the batch
for_detection_stops_at_incomplete(p) ==
  /\ req[p].pc = "for"
  /\ LET r == req[p]
         dets == Detections(r.inp.result)
     IN req' = [req EXCEPT ![p] =
          IF r.k > Len(dets) THEN Return(r, 200, "result", <<>>)
          ELSE IF ~IsComplete(dets[r.k])
               THEN Return(Logged(r, "incomplete", "skip"), 200, "result", <<>>)
          ELSE IF IsSome(dets[r.k].track_id)
               THEN [r EXCEPT !.pc = "check_duplicate_track"]
          ELSE [r EXCEPT !.pc = "get_or_create_class"]]
  /\ UNCHANGED <<now, fod_classes, events, returned>>

\* for det in detections { if let (Some(cls), Some(conf)) = .. {
\*   if let Some(tid) = det.get("track_id") ..
for_detection(p) ==
  /\ req[p].pc = "for"
  /\ LET r == req[p]
         dets == Detections(r.inp.result)
     IN req' = [req EXCEPT ![p] =
          IF r.k > Len(dets) THEN Return(r, 200, "result", <<>>)
          ELSE IF ~IsComplete(dets[r.k])
               THEN [Logged(r, "incomplete", "skip") EXCEPT !.k = r.k + 1]
          ELSE IF IsSome(dets[r.k].track_id)
               THEN [r EXCEPT !.pc = "check_duplicate_track"]
          ELSE [r EXCEPT !.pc = "get_or_create_class"]]
  /\ UNCHANGED <<now, fod_classes, events, returned>>

\* db::check_duplicate_track(&state.db, &source_ref, tid).await?.is_some()
call_check_duplicate_track(p, fault) ==
  /\ req[p].pc = "check_duplicate_track"
  /\ LET r == req[p]
         det == Detections(r.inp.result)[r.k]
         hit == check_duplicate_track(events, now, SourceRef(r.inp.params),
                                      Get(det.track_id)) # {}
     IN req' = [req EXCEPT ![p] =
          IF fault THEN Internal(Logged(r, "check_duplicate_track", "fault"))
          ELSE IF hit
               THEN [Logged(r, "check_duplicate_track", "hit") EXCEPT
                       !.pc = "for", !.k = r.k + 1]
          ELSE [Logged(r, "check_duplicate_track", "miss") EXCEPT
                  !.pc = "get_or_create_class"]]
  /\ UNCHANGED <<now, fod_classes, events, returned>>

\* let class_id = db::get_or_create_class(&state.db, cls).await?
call_get_or_create_class(p, fault) ==
  /\ req[p].handler = "infer"
  /\ req[p].pc = "get_or_create_class"
  /\ LET r == req[p]
         cls == Get(Detections(r.inp.result)[r.k].cls)
         got == get_or_create_class(fod_classes, cls)
     IN IF fault
        THEN /\ req' = [req EXCEPT ![p] =
                  Internal(Logged(r, "get_or_create_class", "fault"))]
             /\ UNCHANGED <<fod_classes, returned>>
        ELSE /\ fod_classes' = got.classes
             /\ returned' = [returned EXCEPT ![cls] = @ \cup {got.id}]
             /\ req' = [req EXCEPT ![p] =
                  [Logged(r, "get_or_create_class", "ok") EXCEPT
                     !.pc = "insert_event_now", !.class_id = got.id]]
  /\ UNCHANGED <<now, events>>

\* db::insert_event_now(&state.db, class_id, conf as f32, lat, lon, &source,
\*                      &source_ref, bbox, Value::Object(meta)).await?
call_insert_event_now(p, fault) ==
  /\ req[p].pc = "insert_event_now"
  /\ ~fault => Len(events) < MaxEvents
  /\ LET r == req[p]
         params == r.inp.params
         det == Detections(r.inp.result)[r.k]
     IN IF fault
        THEN /\ req' = [req EXCEPT ![p] =
                  Internal(Logged(r, "insert_event_now", "fault"))]
             /\ UNCHANGED events
        ELSE /\ events' = insert_event_now(events, now, r.class_id,
                            AsF32(Get(det.conf)), Latitude(params),
                            Longitude(params), Source(params),
                            SourceRef(params), BboxOf(det),
                            MetaOf(r.inp.result, params, det))
             /\ req' = [req EXCEPT ![p] =
                  [Logged(r, "insert_event_now", "ok") EXCEPT
                     !.pc = "for", !.k = r.k + 1, !.class_id = 0]]
  /\ UNCHANGED <<now, fod_classes, returned>>

-----------------------------------------------------------------------------
(* ingest_event *)

\* the Json extractor has produced the payload
ingest_event(p, payload) ==
  /\ req[p].pc = "idle"
  /\ req' = [req EXCEPT ![p] = Begin("ingest_event", "get_or_create_class", payload)]
  /\ UNCHANGED <<now, fod_classes, events, returned>>

\* let class_id = db::get_or_create_class(&state.db, &payload.object_class).await?;
\* let ts = OffsetDateTime::parse(&payload.ts, &Rfc3339).map_err(|_| (BAD_REQUEST, ..))?;
ingest_get_or_create_class(p, fault) ==
  /\ req[p].handler = "ingest_event"
  /\ req[p].pc = "get_or_create_class"
  /\ LET r == req[p]
         got == get_or_create_class(fod_classes, r.inp.object_class)
     IN IF fault
        THEN /\ req' = [req EXCEPT ![p] =
                  Internal(Logged(r, "get_or_create_class", "fault"))]
             /\ UNCHANGED <<fod_classes, returned>>
        ELSE /\ fod_classes' = got.classes
             /\ returned' = [returned EXCEPT ![r.inp.object_class] = @ \cup {got.id}]
             /\ req' = [req EXCEPT ![p] =
                  IF IsSome(ParseRfc3339(r.inp.ts))
                  THEN [Logged(r, "get_or_create_class", "ok") EXCEPT
                          !.pc = "insert_event", !.class_id = got.id]
                  ELSE Return(Logged(r, "get_or_create_class", "ok"),
                              400, "Invalid timestamp", <<>>)]
  /\ UNCHANGED <<now, events>>

\* let event_id = db::insert_event(&state.db, ts, class_id, ..).await?;
\* Ok(Json(json!({"id": event_id, "status": "success"})))
ingest_insert_event(p, fault) ==
  /\ req[p].pc = "insert_event"
  /\ ~fault => Len(events) < MaxEvents
  /\ LET r == req[p]
         pl == r.inp
     IN IF fault
        THEN /\ req' = [req EXCEPT ![p] = Internal(Logged(r, "insert_event", "fault"))]
             /\ UNCHANGED events
        ELSE /\ events' = insert_event(events, now, Get(ParseRfc3339(pl.ts)),
                            r.class_id, pl.object_count, pl.confidence,
                            pl.latitude, pl.longitude, pl.source, pl.source_ref,
                            pl.bbox, pl.meta)
             /\ req' = [req EXCEPT ![p] =
                  Return(Logged(r, "insert_event", "ok"), 200, "success",
                         <<Len(events) + 1>>)]
  /\ UNCHANGED <<now, fod_classes, returned>>

-----------------------------------------------------------------------------
(* recent_events, query_events *)

\* let limit = ..; let rows = db::get_recent(&state.db, limit).await?;
recent_events(p, q, fault) ==
  /\ req[p].pc = "idle"
  /\ LET r == [Begin("recent_events", "get_recent", q) EXCEPT !.k = LimitOf(q)]
     IN IF fault
        THEN req' = [req EXCEPT ![p] = Internal(Logged(r, "get_recent", "fault"))]
        ELSE \E rows \in get_recent(events, fod_classes, LimitOf(q)) :
               req' = [req EXCEPT ![p] =
                 Return(Logged(r, "get_recent", "ok"), 200, "rows", rows)]
  /\ UNCHANGED <<now, fod_classes, events, returned>>

\* let limit = ..; let class_name = q.get("class");
\* let rows = db::query_events(&state.db, class_name, limit).await?;
query_events_handler(p, q, fault) ==
  /\ req[p].pc = "idle"
  /\ LET r == [Begin("query_events", "query_events", q) EXCEPT !.k = LimitOf(q)]
     IN IF fault
        THEN req' = [req EXCEPT ![p] = Internal(Logged(r, "query_events", "fault"))]
        ELSE \E rows \in query_events(events, fod_classes, q.class, LimitOf(q)) :
               req' = [req EXCEPT ![p] =
                 Return(Logged(r, "query_events", "ok"), 200, "rows", rows)]
  /\ UNCHANGED <<now, fod_classes, events, returned>>

-----------------------------------------------------------------------------
(* The system *)

\* the response has been sent: the slot is free for the next request
respond(p) ==
  /\ req[p].pc = "done"
  /\ req' = [req EXCEPT ![p] = Idle]
  /\ UNCHANGED <<now, fod_classes, events, returned>>

\* the clock of the store (NOW()) advances
Tick(d) ==
  /\ now + d <= MaxTime
  /\ now' = now + d
  /\ UNCHANGED <<fod_classes, events, req, returned>>

ClassNames == {"bolt", "nut"}

\* after main(): the migrations have run, the tables are empty
Init ==
  /\ now = 0
  /\ fod_classes = {}
  /\ events = <<>>
  /\ req = [p \in Procs |-> Idle]
  /\ returned = [n \in ClassNames |-> {}]

\* one step of an inference request in slot p
SaveStep(p) ==
  \/ maybe_save(p)
  \/ for_detection(p)
  \/ \E fault \in BOOLEAN : call_check_duplicate_track(p, fault)
  \/ \E fault \in BOOLEAN : call_get_or_create_class(p, fault)
  \/ \E fault \in BOOLEAN : call_insert_event_now(p, fault)
  \/ respond(p)

\* one step of a direct ingestion in slot p
IngestStep(p) ==
  \/ \E fault \in BOOLEAN : ingest_get_or_create_class(p, fault)
  \/ \E fault \in BOOLEAN : ingest_insert_event(p, fault)

Step(p) == SaveStep(p) \/ IngestStep(p)

IngestPayload(ts, cls, n, meta) ==
  IngestEventRequest(ts, cls, n, "0.5", "1.0", "2.0", "manual", "cam1", None, meta)

LimitTexts ==
  {<<>>, <<"a", "b", "c">>, <<"-", "1">>, <<"0">>, <<"1">>, <<"2">>, <<"+", "3">>,
   <<"5", "0", "0">>, <<"5", "0", "1">>}

Queries ==
  {Query(l, c) : l \in {None} \cup {Some(t) : t \in LimitTexts},
                 c \in {None, Some("bolt")}}

(* Concurrent requests: two slots, the inputs that share a class name, a
   source_ref and a track identifier *)

ConcResults == {ResultOf(<<DetTrack>>)}
ConcPayloads == {IngestPayload(TsZero, "bolt", 1, TrackMeta),
                 IngestPayload(TsGarbage, "nut", 1, None)}
ConcQuery == Query(Some(<<"1">>), Some("bolt"))

Next ==
  \/ Tick(Window)
  \/ \E p \in Procs : Step(p)
  \/ \E p \in Procs, result \in ConcResults : infer(p, ParamsFull, result, TRUE, 200)
  \/ \E p \in Procs, payload \in ConcPayloads : ingest_event(p, payload)
  \/ \E p \in Procs : recent_events(p, ConcQuery, FALSE)
  \/ \E p \in Procs : query_events_handler(p, ConcQuery, FALSE)

Spec == Init /\ [][Next]_vars

(* Sequential requests over time: one slot, so that a request comes in only
   after the previous one was answered; tracked detections under two
   source_refs, direct ingestion with every timestamp text, every query *)

SeqSaves ==
  {<<ParamsFull, ResultOf(<<DetTrack>>)>>,
   <<ParamsFull, ResultOf(<<DetTrack, DetTrack>>)>>,
   <<ParamsDefault, ResultOf(<<DetTrack>>)>>}

SeqPayloads ==
  {IngestPayload(TsZero, "bolt", 1, TrackMeta),
   IngestPayload(TsTwelve, "bolt", 1, TrackMeta),
   IngestPayload(TsZero, "nut", 0, None),
   IngestPayload(TsNoOffset, "bolt", 1, TrackMeta),
   IngestPayload(TsGarbage, "nut", 0, None)}

NextSeq ==
  \/ \E d \in TickSteps : Tick(d)
  \/ Step(1)
  \/ \E s \in SeqSaves : infer(1, s[1], s[2], TRUE, 200)
  \/ \E payload \in SeqPayloads : ingest_event(1, payload)
  \/ \E q \in Queries, fault \in BOOLEAN : recent_events(1, q, fault)
  \/ \E q \in Queries, fault \in BOOLEAN : query_events_handler(1, q, fault)

SeqSpec == Init /\ [][NextSeq]_vars

(* One inference request after another, with every shape of batch and of
   save parameters *)

Batches ==
  {<<>>, <<DetBolt>>, <<DetNut>>, <<DetPlain>>, <<DetTrack>>, <<DetEmpty>>,
   <<DetNoConf>>, <<DetTrack, DetTrack>>, <<DetEmpty, DetTrack, DetNut>>,
   <<DetTrack, DetEmpty, DetNut>>, <<DetTrack, DetNut, DetEmpty>>,
   <<DetBolt, DetNoConf, DetTrack>>}

Results == {ResultOf(b) : b \in Batches} \cup {ResultBare}
Params == {ParamsAbsent, ParamsNoSave, ParamsDefault, ParamsFull}

NextBatch ==
  \/ SaveStep(1)
  \/ \E params \in Params, result \in Results, upload \in BOOLEAN,
        ai \in {0, 200, 422} : infer(1, params, result, upload, ai)

BatchSpec == Init /\ [][NextBatch]_vars

-----------------------------------------------------------------------------
(* Properties *)

\* the request of slot p came from `handler` and has returned
Finished(p, handler) == req[p].handler = handler /\ req[p].pc = "done"

\* a call of the request failed in the store
StorageFault(r) ==
  \E i \in 1..Len(r.log) : r.log[i].r = "fault" /\ r.log[i].op # "send_to_ai"

\* the AI service answered: maybe_save was called
AiOk(r) == r.log # <<>> /\ r.log[1].op = "send_to_ai" /\ r.log[1].r = "ok"

\* the event rows inserted since the request came in; with one request at
\* a time these are the rows the request inserted
RowsSince(r) == SubSeq(events, r.base + 1, Len(events))

\* the row is an event of track T under source_ref S
SameTrack(e, S, T) == e.source_ref = S /\ TrackOf(e.meta) = Some(T)

\* C1: direct ingestion with a timestamp that is not RFC 3339 is rejected
\* with a 400 before storage is touched: once the request has returned, the
\* class rows and the event rows are what they were when it came in, and it
\* has made no database call.
C1_RejectedBeforeStorage ==
  \A p \in Procs :
    (Finished(p, "ingest_event") /\ ParseRfc3339(req[p].inp.ts) = None) =>
      /\ req[p].status = 400
      /\ req[p].log = <<>>
      /\ Cardinality(fod_classes) = req[p].baseCls
      /\ Len(events) = req[p].base

\* the step of the duplicate check of slot p: skipped on a match inside the
\* window, let through when every match is older than the window
C2_CheckStep(p) ==
  LET r == req[p]
      S == SourceRef(r.inp.params)
      T == Get(Detections(r.inp.result)[r.k].track_id)
      inside == \E i \in 1..Len(events) :
                  /\ SameTrack(events[i], S, T)
                  /\ events[i].ts > now - Window
                  /\ events[i].ts <= now
      older == \A i \in 1..Len(events) :
                  SameTrack(events[i], S, T) => events[i].ts < now - Window
  IN (r.pc = "check_duplicate_track" /\ req'[p] # r /\ req'[p].status # 500) =>
       /\ inside => /\ events' = events
                    /\ req'[p].pc = "for"
                    /\ req'[p].k = r.k + 1
       /\ older => /\ req'[p].pc = "get_or_create_class"
                   /\ req'[p].k = r.k

\* the steps after the check: the class is resolved, then the row inserted
C2_InsertStep(p) ==
  LET r == req[p]
      det == Detections(r.inp.result)[r.k]
  IN /\ (r.handler = "infer" /\ r.pc = "get_or_create_class"
           /\ req'[p] # r /\ req'[p].status # 500) =>
          req'[p].pc = "insert_event_now" /\ req'[p].k = r.k
     /\ (r.pc = "insert_event_now" /\ req'[p] # r /\ req'[p].status # 500) =>
          /\ Len(events') = Len(events) + 1
          /\ SubSeq(events', 1, Len(events)) = events
          /\ events'[Len(events')].ts = now
          /\ events'[Len(events')].source_ref = SourceRef(r.inp.params)
          /\ TrackOf(events'[Len(events')].meta) = det.track_id

\* two rows of one (S, T) from the save path are a window apart
C2_SavedRowsApart ==
  \A i, j \in 1..Len(events) :
    (/\ i < j
     /\ events[i].via = "maybe_save" /\ events[j].via = "maybe_save"
     /\ events[i].source_ref = events[j].source_ref
     /\ TrackOf(events[i].meta) # None
     /\ TrackOf(events[i].meta) = TrackOf(events[j].meta)) =>
       events[j].ts >= events[i].ts + Window

\* C2: in the save path, with one request at a time, the duplicate check of
\* a detection with track T under source_ref S skips the detection (no row,
\* on to the next detection) whenever an event of (S, T) has its timestamp
\* inside the trailing 10 seconds, and lets it through whenever every event
\* of (S, T) is older than 10 seconds; a detection let through is resolved
\* and then inserted with timestamp now, unless the store fails.  So two rows
\* of one (S, T) written by the save path are at least 10 seconds apart.
C2_DedupWindow ==
  /\ []C2_SavedRowsApart
  /\ [][\A p \in Procs : C2_CheckStep(p) /\ C2_InsertStep(p)]_vars

\* a tracked detection was skipped as a duplicate, and the store holds two
\* rows of one (S, T) from the save path
C2_Witness ==
  /\ \E p \in Procs : \E i \in 1..Len(req[p].log) :
       req[p].log[i].op = "check_duplicate_track" /\ req[p].log[i].r = "hit"
  /\ \E i, j \in 1..Len(events) :
       /\ i < j
       /\ events[i].via = "maybe_save" /\ events[j].via = "maybe_save"
       /\ events[i].source_ref = events[j].source_ref
       /\ TrackOf(events[i].meta) = Some("t1")
       /\ TrackOf(events[j].meta) = Some("t1")

\* two events of one source_ref and one track identifier, the later one
\* inserted while the earlier one's timestamp was inside the window
InWindowAtInsert(earlier, later) ==
  /\ earlier.source_ref = later.source_ref
  /\ TrackOf(earlier.meta) # None
  /\ TrackOf(earlier.meta) = TrackOf(later.meta)
  /\ earlier.ts > later.at - Window
  /\ earlier.ts <= later.at

\* C3 as stated: after any sequence of requests, one at a time, over both
\* ingestion paths, the store never holds two events of one source_ref and
\* one track identifier where the later one was inserted while the earlier
\* one's timestamp was within the trailing 10 seconds of the insert time.
C3_NoDuplicateEitherPath ==
  \A i, j \in 1..Len(events) : i < j => ~InWindowAtInsert(events[i], events[j])

\* C3, amended: the same, for a later event that the save path (maybe_save)
\* inserted; direct ingestion runs no duplicate check.
C3_NoDuplicateFromSavePath ==
  \A i, j \in 1..Len(events) :
    (i < j /\ events[j].via = "maybe_save") =>
      ~InWindowAtInsert(events[i], events[j])

\* the save path inserted a tracked event after a directly ingested event of
\* the same source_ref and track, whose timestamp had left the window
C3_Witness ==
  \E i, j \in 1..Len(events) :
    /\ i < j
    /\ events[i].via = "ingest_event" /\ events[j].via = "maybe_save"
    /\ events[i].source_ref = events[j].source_ref
    /\ TrackOf(events[i].meta) = Some("t1")
    /\ TrackOf(events[j].meta) = Some("t1")
    /\ events[i].ts <= events[j].at - Window

\* C4: for every class name and every interleaving of get_or_create_class
\* calls, the store holds at most one class row of that name, exactly one
\* once the name was resolved, and every call for the name, then and later,
\* returned that row's identifier.
C4_OneClassPerName ==
  \A n \in ClassNames :
    LET rows == {c \in fod_classes : c.name = n}
    IN /\ Cardinality(rows) <= 1
       /\ Cardinality(returned[n]) <= 1
       /\ returned[n] = {c.id : c \in rows}

\* two requests in flight at once hold the identifier of the same class,
\* each from its own get_or_create_class call
C4_Witness ==
  /\ req[1].pc \in {"insert_event_now", "insert_event"}
  /\ req[2].pc \in {"insert_event_now", "insert_event"}
  /\ req[1].class_id = req[2].class_id
  /\ req[1].base = 0 /\ req[2].base = 0
  /\ req[1].baseCls = 0 /\ req[2].baseCls = 0

\* the caller's save flag is false or absent
SaveOff(params) == params.save = None \/ params.save = Some(FALSE)

\* the calls of the request to the store
StoreCalls(r) == SelectSeq(r.log, LAMBDA e : e.op \notin {"send_to_ai", "incomplete"})

\* a request without the save flag leaves the store as it found it
C5_Untouched ==
  \A p \in Procs :
    (Finished(p, "infer") /\ SaveOff(req[p].inp.params)) =>
      /\ StoreCalls(req[p]) = <<>>
      /\ Len(events) = req[p].base
      /\ Cardinality(fod_classes) = req[p].baseCls

\* the step of maybe_save without the save flag: straight to the answer
C5_ReturnStep(p) ==
  (req[p].pc = "maybe_save" /\ SaveOff(req[p].inp.params) /\ req'[p] # req[p]) =>
    /\ req'[p].pc = "done"
    /\ req'[p].status = 200
    /\ req'[p].body = "result"
    /\ req'[p].log = req[p].log
    /\ events' = events
    /\ fod_classes' = fod_classes

\* C5: when the save flag is false or absent, maybe_save returns success at
\* once and the request answers 200 with the inference result; no event is
\* inserted, no class is created and no call to the store is made, whatever
\* the detections are.
C5_SaveOffIsNoOp ==
  /\ []C5_Untouched
  /\ [][\A p \in Procs : C5_ReturnStep(p)]_vars

\* a request without the save flag was answered with the result of a batch
\* that holds a complete, tracked detection, over a store that holds a row
C5_Witness ==
  \E p \in Procs :
    /\ Finished(p, "infer")
    /\ req[p].inp.params.save = None
    /\ req[p].status = 200
    /\ Len(events) > 0
    /\ \E k \in 1..Len(Detections(req[p].inp.result)) :
         /\ IsComplete(Detections(req[p].inp.result)[k])
         /\ IsSome(Detections(req[p].inp.result)[k].track_id)

\* the duplicate check of detection k found a match
Hit(r, k) ==
  \E i \in 1..Len(r.log) :
    r.log[i].k = k /\ r.log[i].op = "check_duplicate_track" /\ r.log[i].r = "hit"

MissingBoth(det) == det.cls = None /\ det.conf = None

\* the indices 1..n, in order
RECURSIVE Indices(_)
Indices(n) == IF n = 0 THEN <<>> ELSE Append(Indices(n - 1), n)

\* C6: in a save=true batch a detection missing both class label and
\* confidence is skipped: it causes no call to the store, no event row and
\* no error; and every detection of the batch that is complete and was not
\* found a duplicate is inserted, in order, wherever the incomplete one is.
C6_IncompleteSkipped ==
  \A p \in Procs :
    LET r == req[p]
        dets == Detections(r.inp.result)
        kept == SelectSeq(Indices(Len(dets)),
                          LAMBDA k : dets[k].cls # None /\ dets[k].conf # None
                                     /\ ~Hit(r, k))
        rows == RowsSince(r)
    IN (/\ Finished(p, "infer") /\ AiOk(r) /\ r.inp.params.save = Some(TRUE)
        /\ ~StorageFault(r)) =>
         /\ r.status = 200
         /\ r.body = "result"
         /\ \A k \in 1..Len(dets) : MissingBoth(dets[k]) =>
              \A i \in 1..Len(r.log) : r.log[i].k = k => r.log[i].op = "incomplete"
         /\ Len(rows) = Len(kept)
         /\ \A j \in 1..Len(kept) :
              /\ ClassNameOf(fod_classes, rows[j]) = {Get(dets[kept[j]].cls)}
              /\ rows[j].confidence = AsF32(Get(dets[kept[j]].conf))
              /\ TrackOf(rows[j].meta) = dets[kept[j]].track_id

\* a batch of three with the incomplete detection in the middle: both of
\* its siblings were inserted
C6_Witness ==
  \E p \in Procs :
    LET dets == Detections(req[p].inp.result)
    IN /\ Finished(p, "infer")
       /\ req[p].status = 200
       /\ req[p].inp.params.save = Some(TRUE)
       /\ Len(dets) = 3
       /\ MissingBoth(dets[2])
       /\ Len(RowsSince(req[p])) = 2

\* C7: for save=true and a result with one complete detection without a
\* track identifier, exactly one event row is inserted, with the class of
\* the detection's label, the detection's confidence (as an f32), object
\* count 1, latitude, longitude, source and source_ref of the save
\* parameters where given and 0.0, 0.0, "monitoring", "live_feed" where
\* absent, and as bounding box the normalized box if the detection has one,
\* else the pixel box, else none.
C7_OneDetectionOneRow ==
  \A p \in Procs :
    LET r == req[p]
        dets == Detections(r.inp.result)
        det == dets[1]
        sp == r.inp.params
        rows == RowsSince(r)
    IN (/\ Finished(p, "infer") /\ AiOk(r) /\ sp.save = Some(TRUE)
        /\ ~StorageFault(r)
        /\ Len(dets) = 1
        /\ det.cls # None /\ det.conf # None /\ det.track_id = None) =>
         /\ Len(rows) = 1
         /\ ClassNameOf(fod_classes, rows[1]) = {Get(det.cls)}
         /\ rows[1].confidence = AsF32(Get(det.conf))
         /\ rows[1].object_count = 1
         /\ rows[1].latitude = (IF sp.latitude = None THEN "0.0" ELSE sp.latitude[1])
         /\ rows[1].longitude = (IF sp.longitude = None THEN "0.0" ELSE sp.longitude[1])
         /\ rows[1].source = (IF sp.source = None THEN "monitoring" ELSE sp.source[1])
         /\ rows[1].source_ref =
              (IF sp.source_ref = None THEN "live_feed" ELSE sp.source_ref[1])
         /\ rows[1].bbox = (IF det.bbox_xywh_norm # None THEN det.bbox_xywh_norm
                            ELSE IF det.bbox_xywh # None THEN det.bbox_xywh
                            ELSE None)

\* the request of the specification's end-to-end example: a detection of
\* "bolt" with both boxes, saved with every parameter given
C7_Witness ==
  \E p \in Procs :
    /\ Finished(p, "infer")
    /\ req[p].status = 200
    /\ req[p].inp.params = ParamsFull
    /\ Detections(req[p].inp.result) = <<DetBolt>>
    /\ Len(RowsSince(req[p])) = 1
    /\ RowsSince(req[p])[1].bbox = Some(NormBox)
    /\ RowsSince(req[p])[1].source_ref = "cam1"

\* the decimal text of a number, as its characters
RECURSIVE Decimal(_)
Decimal(n) ==
  IF n < 10 THEN <<Digits[n + 1]>>
  ELSE Append(Decimal(n \div 10), Digits[(n % 10) + 1])

\* the number a decimal text of 1..500 stands for
NumberOfText == [t \in {Decimal(n) : n \in 1..500} |->
                   CHOOSE n \in 1..500 : Decimal(n) = t]

\* C8: whatever limit the client sends to recent_events or query_events
\* (none, not a number, negative, 0, 1..500, 501), the limit that reaches
\* the store is in 1..500: a value in 1..500 unchanged, 100 for an absent
\* limit, never 0 or 501; and the list returned has at most that many rows.
C8_LimitClamped ==
  \A p \in Procs :
    (req[p].handler \in {"recent_events", "query_events"} /\ req[p].pc = "done") =>
      LET sent == req[p].log[1].k
          text == req[p].inp.limit
      IN /\ Len(req[p].log) = 1
         /\ sent \in 1..500
         /\ text = None => sent = 100
         /\ (text # None /\ text[1] \in DOMAIN NumberOfText) =>
              sent = NumberOfText[text[1]]
         /\ text \in {Some(<<"0">>), Some(<<"5", "0", "1">>)} => sent \notin {0, 501}
         /\ Len(req[p].rows) <= sent
         /\ \A i \in 1..Len(req[p].rows) : req[p].rows[i] \in 1..Len(events)

\* limit=1 over a store of two events: one row came back
C8_Witness ==
  \E p \in Procs :
    /\ Finished(p, "recent_events")
    /\ req[p].inp.limit = Some(<<"1">>)
    /\ req[p].status = 200
    /\ Len(events) = 2
    /\ Len(req[p].rows) = 1

\* C9: in a save=true batch a failure of the store at detection k (in the
\* duplicate lookup, the class resolution or the insert) ends the batch:
\* it is the request's last call, no detection after k is looked up,
\* resolved or inserted, and the request answers 500 and not the inference
\* result; without such a failure every detection of the batch is gone
\* through, duplicates and incomplete ones included, and the request
\* answers 200 with the result.
C9_FaultAborts ==
  \A p \in Procs :
    LET r == req[p]
        n == Len(r.log)
        dets == Detections(r.inp.result)
        inserted == SelectSeq(r.log, LAMBDA e : e.op = "insert_event_now" /\ e.r = "ok")
    IN (Finished(p, "infer") /\ AiOk(r) /\ r.inp.params.save = Some(TRUE)) =>
         /\ Len(RowsSince(r)) = Len(inserted)
         /\ StorageFault(r) =>
              /\ r.status = 500
              /\ r.body # "result"
              /\ r.log[n].r = "fault"
              /\ \A i \in 1..(n - 1) : r.log[i].r # "fault" /\ r.log[i].k <= r.log[n].k
              /\ r.log[n].k \in 1..Len(dets)
         /\ ~StorageFault(r) =>
              /\ r.status = 200
              /\ r.body = "result"
              /\ \A k \in 1..Len(dets) : \E i \in 1..n : r.log[i].k = k

\* the store failed at the second of three detections, after an incomplete
\* first one was skipped; the third, complete, was never looked at
C9_Witness ==
  \E p \in Procs :
    LET r == req[p]
        dets == Detections(r.inp.result)
    IN /\ Finished(p, "infer")
       /\ r.status = 500
       /\ Len(dets) = 3
       /\ ~IsComplete(dets[1])
       /\ IsComplete(dets[3])
       /\ r.log[Len(r.log)].r = "fault"
       /\ r.log[Len(r.log)].k = 2

\* C10: the duplicate check and the insert are two statements.  A save
\* request that has passed its check and resolved its class inserts its row
\* whatever the store holds by then, unless the store fails: nothing looks
\* for a duplicate again.  So two concurrent requests of one (source_ref,
\* track) that both pass the check before either inserts leave two rows.
C10_InsertUnconditional ==
  [][\A p \in Procs :
       (/\ req[p].pc = "insert_event_now"
        /\ req'[p] # req[p]
        /\ req'[p].status # 500) =>
          /\ Len(events') = Len(events) + 1
          /\ events'[Len(events')].via = "maybe_save"
          /\ events'[Len(events')].ts = now]_vars

\* two rows of one (source_ref, track) from the save path, written by two
\* requests that were in flight together, the second inserted while the
\* first was inside the window
C10_Witness ==
  /\ Len(events) = 2
  /\ events[1].via = "maybe_save" /\ events[2].via = "maybe_save"
  /\ InWindowAtInsert(events[1], events[2])
  /\ \A p \in Procs :
       /\ req[p].handler = "infer"
       /\ req[p].base = 0
       /\ \E i \in 1..Len(req[p].log) :
            req[p].log[i].op = "check_duplicate_track" /\ req[p].log[i].r = "miss"
       /\ \E i \in 1..Len(req[p].log) :
            req[p].log[i].op = "insert_event_now" /\ req[p].log[i].r = "ok"

\* ---------------------------------------------------------------------
\* C11: every event row in the store has object count >= 1 after any
\* sequence of ingestion requests on either path.  insert_event_now writes
\* the literal 1 (db.rs:145), but ingest_event hands payload.object_count,
\* an unvalidated i32, to insert_event (main.rs:231-235), so a request
\* carrying 0 leaves a row whose object count is below 1.
C11_ObjectCountAtLeastOne ==
  \A i \in 1..Len(events) : events[i].object_count >= 1

====
